---- MODULE Spec2Model ----
(***************************************************************************)
(* Model of the invoice server actions (app/lib/actions.ts) and of the     *)
(* route guard (auth.config.ts) of the nextjs-dashboard application.       *)
(*                                                                         *)
(* Strings whose characters the code inspects (the amount field, which is  *)
(* coerced with Number(), and the request path, which is tested with       *)
(* startsWith) are sequences of one-character strings.  Strings that the   *)
(* code only compares or passes along are TLA+ strings.                    *)
(*                                                                         *)
(* JavaScript numbers are IEEE-754 binary64 values: a finite non-zero      *)
(* number is a sign, a 53-bit significand (most significant bit first,     *)
(* leading bit 1) and the binary exponent of the leading bit.              *)
(***************************************************************************)
EXTENDS Integers, Sequences, FiniteSets, TLC

(***************************************************************************)
(* IEEE-754 binary64 arithmetic on bit sequences                           *)
(***************************************************************************)

\* number of significand bits of a binary64 value
Precision == 53

NaN == [t |-> "nan"]

Zero == [t |-> "zero"]

Finite(neg, m, e) == [t |-> "num", neg |-> neg, m |-> m, e |-> e]

Zeros(n) == [i \in 1..n |-> 0]

\* binary digits of a natural number below 2^30, most significant first
\* (<<>> for 0)
IntBits(n) ==
    LET L == CHOOSE k \in 0..30 : 2^k > n /\ (k = 0 \/ 2^(k - 1) <= n)
    IN  [i \in 1..L |-> (n \div 2^(L - i)) % 2]

\* the natural number written by a short bit sequence
RECURSIVE BitsInt(_)
BitsInt(b) == IF b = <<>> THEN 0 ELSE 2 * BitsInt(SubSeq(b, 1, Len(b) - 1)) + b[Len(b)]

\* binary addition of two bit sequences of one length: the carry into
\* position i is generated at a lower position j and propagated up to i
CarryInto(a, b, i) ==
    \E j \in (i + 1)..Len(a) :
        /\ a[j] + b[j] = 2
        /\ \A k \in (i + 1)..(j - 1) : a[k] + b[k] = 1

AddBits(a, b) ==
    LET n   == IF Len(a) > Len(b) THEN Len(a) ELSE Len(b)
        pa  == Zeros(n - Len(a)) \o a
        pb  == Zeros(n - Len(b)) \o b
        sum == [i \in 1..n |-> (pa[i] + pb[i] + IF CarryInto(pa, pb, i) THEN 1 ELSE 0) % 2]
    IN  IF CarryInto(pa, pb, 0) THEN <<1>> \o sum ELSE sum

\* exact product of two bit sequences: a shifted to every 1 bit of b, summed
RECURSIVE SumShifted(_, _, _)
SumShifted(a, b, ones) ==
    IF ones = {}
    THEN <<>>
    ELSE LET i == CHOOSE j \in ones : \A k \in ones : j <= k
         IN  AddBits(a \o Zeros(Len(b) - i), SumShifted(a, b, ones \ {i}))

MulBits(a, b) == SumShifted(a, b, {i \in 1..Len(b) : b[i] = 1})

\* Round to nearest, ties to even: bits is an exact significand with leading
\* bit 1 whose leading bit has exponent e; sticky says that non-zero bits
\* follow the ones given.
RoundNearestEven(neg, bits, e, sticky) ==
    IF Len(bits) <= Precision
    THEN Finite(neg, bits \o Zeros(Precision - Len(bits)), e)
    ELSE LET m     == SubSeq(bits, 1, Precision)
             guard == bits[Precision + 1]
             rest  == sticky \/ \E i \in (Precision + 2)..Len(bits) : bits[i] = 1
             up    == guard = 1 /\ (rest \/ m[Precision] = 1)
             r     == IF up THEN AddBits(m, <<1>>) ELSE m
         IN  IF Len(r) > Precision
             THEN Finite(neg, SubSeq(r, 1, Precision), e + 1)
             ELSE Finite(neg, r, e)

\* the binary expansion of r / D (0 <= r < D) continued until the significand
\* holds Precision + 1 bits; leading zeros of a fraction only lower the exponent
RECURSIVE Expand(_, _, _, _)
Expand(bits, e, r, D) ==
    IF Len(bits) = Precision + 1 \/ r = 0
    THEN [bits |-> bits, e |-> e, r |-> r]
    ELSE LET b == IF 2 * r >= D THEN 1 ELSE 0
             q == 2 * r - b * D
         IN  IF bits = <<>> /\ b = 0
             THEN Expand(bits, e - 1, q, D)
             ELSE Expand(Append(bits, b), e, q, D)

\* the binary64 value nearest to the rational N / D (N >= 0, D > 0)
NearestDouble(neg, N, D) ==
    IF N = 0
    THEN Zero
    ELSE LET ib == IntBits(N \div D)
             x  == Expand(ib, IF ib = <<>> THEN -1 ELSE Len(ib) - 1, N % D, D)
         IN  RoundNearestEven(neg, x.bits, x.e, x.r # 0)

\* the product of two numbers, as the * operator computes it
NumMul(x, y) ==
    IF x.t = "nan" \/ y.t = "nan" THEN NaN
    ELSE IF x.t = "zero" \/ y.t = "zero" THEN Zero
    ELSE LET p == MulBits(x.m, y.m)
         IN  RoundNearestEven(x.neg # y.neg, p,
                              x.e + y.e + (Len(p) - (2 * Precision - 1)), FALSE)

\* x > 0
NumGtZero(x) == x.t = "num" /\ ~x.neg

\* the number is a mathematical integer
NumIsInteger(x) ==
    \/ x.t = "zero"
    \/ /\ x.t = "num"
       /\ x.e >= 0
       /\ \A i \in 1..Precision : i > x.e + 1 => x.m[i] = 0

\* the value of an integral number of moderate size
NumIntValue(x) ==
    IF x.t = "zero" THEN 0
    ELSE (IF x.neg THEN -1 ELSE 1) * BitsInt(SubSeq(x.m, 1, x.e + 1))

(***************************************************************************)
(* Values crossing the form boundary                                       *)
(***************************************************************************)

\* FormData.get() of a field the form did not submit
Null == [t |-> "null"]

Undefined == [t |-> "undefined"]

Str(v) == [t |-> "string", v |-> v]

DigitChars == <<"0", "1", "2", "3", "4", "5", "6", "7", "8", "9">>

IsDigit(c) == \E i \in 1..10 : DigitChars[i] = c

DigitValue(c) == (CHOOSE i \in 1..10 : DigitChars[i] = c) - 1

\* the natural number written by a sequence of decimal digits
RECURSIVE DecimalValue(_)
DecimalValue(ds) ==
    IF ds = <<>> THEN 0
    ELSE 10 * DecimalValue(SubSeq(ds, 1, Len(ds) - 1)) + DigitValue(ds[Len(ds)])

\* the string without its leading and trailing white space
TrimString(s) ==
    LET ink == {i \in 1..Len(s) : s[i] # " "}
    IN  IF ink = {} THEN <<>>
        ELSE SubSeq(s, CHOOSE i \in ink : \A j \in ink : i <= j,
                       CHOOSE i \in ink : \A j \in ink : i >= j)

\* The decimal literal a string spells: optional sign, digits, optional
\* fraction.  ok is FALSE when the string is not such a literal.  (Exponents,
\* radix prefixes and the Infinity literal do not occur in the inputs drawn.)
DecimalLiteral(s) ==
    LET signed == s # <<>> /\ s[1] \in {"+", "-"}
        body   == IF signed THEN Tail(s) ELSE s
        dots   == {i \in 1..Len(body) : body[i] = "."}
        dot    == IF dots = {} THEN Len(body) + 1 ELSE CHOOSE i \in dots : TRUE
        int    == SubSeq(body, 1, dot - 1)
        frac   == SubSeq(body, dot + 1, Len(body))
        ok     == /\ Cardinality(dots) <= 1
                  /\ Len(int) + Len(frac) >= 1
                  /\ \A i \in 1..Len(body) : i # dot => IsDigit(body[i])
    IN  [ok |-> ok, neg |-> signed /\ s[1] = "-", int |-> int, frac |-> frac]

\* Number(string): the empty string is 0, a decimal literal is the nearest
\* binary64 value, anything else is NaN
StringToNumber(s) ==
    LET t == TrimString(s)
        d == DecimalLiteral(t)
    IN  IF t = <<>> THEN Zero
        ELSE IF ~d.ok THEN NaN
        ELSE NearestDouble(d.neg, DecimalValue(d.int \o d.frac), 10^Len(d.frac))

\* Number(value) for the values FormData.get() yields; Number(null) is 0
ToNumber(raw) == IF raw.t = "null" THEN Zero ELSE StringToNumber(raw.v)

(***************************************************************************)
(* Bounds and the inputs drawn                                             *)
(***************************************************************************)

\* rows the invoices table may hold
MaxInvoices == 2

CustomerIdInputs == {Null, Str(""), Str("c1")}

AmountInputs ==
    {Null, Str(<<>>), Str(<<"0">>), Str(<<"-", "5">>), Str(<<"a", "b", "c">>),
     Str(<<"1", "0">>), Str(<<"1", "9", ".", "9", "9">>)}

StatusInputs == {Null, Str("draft"), Str("pending"), Str("paid")}

\* the day new Date() reports
Dates == {"2024-01-01"}

Hundred == NearestDouble(FALSE, 100, 1)

\* the invoices table before the first request
SeedInvoices ==
    [i \in {1} |-> [customer_id |-> "c2", amount |-> NearestDouble(FALSE, 15795, 1),
                    status |-> "pending", date |-> "2023-12-06"]]

(***************************************************************************)
(* FormSchema (Zod)                                                        *)
(***************************************************************************)

\* what a Zod type makes of a value: the parsed value, or its issues
Parsed(v) == [ok |-> TRUE, value |-> v]

Rejected(messages) == [ok |-> FALSE, issues |-> messages]

\* z.string({invalid_type_error}): any string passes, the empty one included
FormSchema_customerId(raw) ==
    IF raw.t = "string" THEN Parsed(raw.v) ELSE Rejected(<<"Please select a customer.">>)

\* z.coerce.number(), tabulated over the amounts drawn
CoerceNumber == [raw \in AmountInputs |-> ToNumber(raw)]

\* NumberGtZero with .gte(0) written for .gt(0)
NumberGtZero_gte(n) ==
    IF n.t = "nan" THEN Rejected(<<"Expected number, received nan">>)
    ELSE IF n.t = "num" /\ n.neg THEN Rejected(<<"Please enter an amount greater than $0.">>)
    ELSE Parsed(n)

\* .number().gt(0, {message}) on the coerced value: NaN is a type issue and
\* ends the checks of the field; otherwise the gt(0) refinement runs
NumberGtZero(n) ==
    IF n.t = "nan" THEN Rejected(<<"Expected number, received nan">>)
    ELSE IF ~NumGtZero(n) THEN Rejected(<<"Please enter an amount greater than $0.">>)
    ELSE Parsed(n)

\* z.coerce.number().gt(0, {message})
FormSchema_amount(raw) == NumberGtZero(CoerceNumber[raw])

\* z.enum(['pending', 'paid'], {invalid_type_error}): the friendly message
\* only replaces the type issue; a string outside the enum gets Zod's default
FormSchema_status(raw) ==
    IF raw.t # "string" THEN Rejected(<<"Please select an invoice status.">>)
    ELSE IF raw.v \notin {"pending", "paid"}
         THEN Rejected(<<"Invalid enum value. Expected 'pending' | 'paid', received '"
                           \o raw.v \o "'">>)
    ELSE Parsed(raw.v)

\* error.flatten().fieldErrors: the fields that have issues, with their messages
FieldErrors(fields) ==
    [f \in {g \in DOMAIN fields : ~fields[g].ok} |-> fields[f].issues]

\* z.object: the data when every field parsed, else the issues of all fields
ObjectResult(fields) ==
    IF \A f \in DOMAIN fields : fields[f].ok
    THEN [success |-> TRUE, data |-> [f \in DOMAIN fields |-> fields[f].value]]
    ELSE [success |-> FALSE, fieldErrors |-> FieldErrors(fields)]

\* SafeParse with an amount field that is coerced but not checked
SafeParse_ignoreAmount(input) ==
    ObjectResult([customerId |-> FormSchema_customerId(input.customerId),
                  amount     |-> Parsed(CoerceNumber[input.amount]),
                  status     |-> FormSchema_status(input.status)])

\* FormSchema.omit({id, date}).safeParse(input): every field is checked
SafeParse(input) ==
    ObjectResult([customerId |-> FormSchema_customerId(input.customerId),
                  amount     |-> FormSchema_amount(input.amount),
                  status     |-> FormSchema_status(input.status)])

CreateInvoice(input) == SafeParse(input)

UpdateInvoice(input) == SafeParse(input)

\* amount * 100, tabulated over the amounts validation lets through
TimesHundred ==
    [x \in {CoerceNumber[raw] : raw \in AmountInputs} |-> NumMul(x, Hundred)]

FormInputs ==
    [customerId : CustomerIdInputs, amount : AmountInputs, status : StatusInputs]

(***************************************************************************)
(* State                                                                   *)
(***************************************************************************)

VARIABLES
    invoices,   \* the invoices table: id -> row
    pc,         \* "idle", or "done" once a call has run and awaits its response
    call,       \* the call that ran: function name and arguments
    effects,    \* what the call did, in order: sql, revalidatePath, redirect, signIn
    outcome     \* how the call ended: return, throw or redirect

vars == <<invoices, pc, call, effects, outcome>>

NoCall == [fn |-> "none"]

NoOutcome == [kind |-> "none"]

Return(v) == [kind |-> "return", value |-> v]

Throw(e) == [kind |-> "throw", error |-> e]

\* redirect() leaves the function by throwing NEXT_REDIRECT to the framework
Redirected(path) == [kind |-> "redirect", path |-> path]

Sql(stmt, params, ok) == [op |-> "sql", stmt |-> stmt, params |-> params, ok |-> ok]

RevalidatePath(path) == [op |-> "revalidatePath", path |-> path]

Redirect(path) == [op |-> "redirect", path |-> path]

Init ==
    /\ invoices = SeedInvoices
    /\ pc = "idle"
    /\ call = NoCall
    /\ effects = <<>>
    /\ outcome = NoOutcome

(***************************************************************************)
(* Storage statements                                                      *)
(***************************************************************************)

\* the id storage gives to a new row; until then, an id no stored invoice has
NewId(db) == Cardinality(DOMAIN db) + 1

\* INSERT INTO invoices (customer_id, amount, status, date) VALUES (...)
SqlInsert(db, customerId, amountInCents, status, date) ==
    [i \in DOMAIN db \cup {NewId(db)} |->
        IF i \in DOMAIN db THEN db[i]
        ELSE [customer_id |-> customerId, amount |-> amountInCents,
              status |-> status, date |-> date]]

\* SqlUpdate without its WHERE clause
SqlUpdate_noWhere(db, id, customerId, amountInCents, status) ==
    [i \in DOMAIN db |->
        [db[i] EXCEPT !.customer_id = customerId, !.amount = amountInCents,
                      !.status = status]]

\* UPDATE invoices SET customer_id, amount, status WHERE id = ...
SqlUpdate(db, id, customerId, amountInCents, status) ==
    [i \in DOMAIN db |->
        IF i = id
        THEN [db[i] EXCEPT !.customer_id = customerId, !.amount = amountInCents,
                           !.status = status]
        ELSE db[i]]

(***************************************************************************)
(* Server actions.  Each call runs while no other call is in progress      *)
(* (pc = "idle") and leaves its record for the response (pc = "done").     *)
(* The prevState argument is read by none of them and is left out.         *)
(***************************************************************************)

InvoicesPath == "/dashboard/invoices"

\* createInvoice whose catch block does not return
createInvoice_catchFallsThrough(formData, today, sqlOk) ==
    LET validatedFields == CreateInvoice(formData)
    IN  /\ pc = "idle"
        /\ (validatedFields.success /\ sqlOk) => Cardinality(DOMAIN invoices) < MaxInvoices
        /\ pc' = "done"
        /\ call' = [fn |-> "createInvoice", formData |-> formData]
        /\ IF ~validatedFields.success
           THEN /\ effects' = <<>>
                /\ outcome' = Return([errors  |-> validatedFields.fieldErrors,
                                      message |-> "Missing Fields. Failed to Create Invoice."])
                /\ UNCHANGED invoices
           ELSE LET customerId    == validatedFields.data.customerId
                    amountInCents == TimesHundred[validatedFields.data.amount]
                    status        == validatedFields.data.status
                    params        == [customerId |-> customerId, amount |-> amountInCents,
                                      status |-> status, date |-> today]
                IN  /\ invoices' = IF sqlOk
                                   THEN SqlInsert(invoices, customerId, amountInCents, status, today)
                                   ELSE invoices
                    /\ effects' = <<Sql("INSERT", params, sqlOk),
                                    RevalidatePath(InvoicesPath), Redirect(InvoicesPath)>>
                    /\ outcome' = Redirected(InvoicesPath)

\* sqlOk: whether the storage statement succeeds; today: the day of the call
createInvoice(formData, today, sqlOk) ==
    LET validatedFields == CreateInvoice(formData)
    IN  /\ pc = "idle"
        /\ (validatedFields.success /\ sqlOk) => Cardinality(DOMAIN invoices) < MaxInvoices
        /\ pc' = "done"
        /\ call' = [fn |-> "createInvoice", formData |-> formData]
        /\ IF ~validatedFields.success
           THEN /\ effects' = <<>>
                /\ outcome' = Return([errors  |-> validatedFields.fieldErrors,
                                      message |-> "Missing Fields. Failed to Create Invoice."])
                /\ UNCHANGED invoices
           ELSE LET customerId    == validatedFields.data.customerId
                    amount        == validatedFields.data.amount
                    status        == validatedFields.data.status
                    amountInCents == TimesHundred[amount]
                    date          == today
                    params        == [customerId |-> customerId, amount |-> amountInCents,
                                      status |-> status, date |-> date]
                IN  IF sqlOk
                    THEN /\ invoices' = SqlInsert(invoices, customerId, amountInCents, status, date)
                         /\ effects' = <<Sql("INSERT", params, TRUE),
                                         RevalidatePath(InvoicesPath), Redirect(InvoicesPath)>>
                         /\ outcome' = Redirected(InvoicesPath)
                    ELSE /\ UNCHANGED invoices
                         /\ effects' = <<Sql("INSERT", params, FALSE)>>
                         /\ outcome' = Return([message |-> "Database Error: Failed to Create Invoice."])

\* updateInvoice with redirect() called before revalidatePath()
updateInvoice_redirectBeforeRevalidate(id, formData, sqlOk) ==
    LET validatedFields == UpdateInvoice(formData)
    IN  /\ pc = "idle"
        /\ pc' = "done"
        /\ call' = [fn |-> "updateInvoice", id |-> id, formData |-> formData]
        /\ IF ~validatedFields.success
           THEN /\ effects' = <<>>
                /\ outcome' = Return([errors  |-> validatedFields.fieldErrors,
                                      message |-> "Missing Fields. Failed to Update Invoice."])
                /\ UNCHANGED invoices
           ELSE LET customerId    == validatedFields.data.customerId
                    amountInCents == TimesHundred[validatedFields.data.amount]
                    status        == validatedFields.data.status
                    params        == [customerId |-> customerId, amount |-> amountInCents,
                                      status |-> status, id |-> id]
                IN  IF sqlOk
                    THEN /\ invoices' = SqlUpdate(invoices, id, customerId, amountInCents, status)
                         /\ effects' = <<Sql("UPDATE", params, TRUE), Redirect(InvoicesPath)>>
                         /\ outcome' = Redirected(InvoicesPath)
                    ELSE /\ UNCHANGED invoices
                         /\ effects' = <<Sql("UPDATE", params, FALSE)>>
                         /\ outcome' = Return([message |-> "Database Error: Failed to Update Invoice."])

updateInvoice(id, formData, sqlOk) ==
    LET validatedFields == UpdateInvoice(formData)
    IN  /\ pc = "idle"
        /\ pc' = "done"
        /\ call' = [fn |-> "updateInvoice", id |-> id, formData |-> formData]
        /\ IF ~validatedFields.success
           THEN /\ effects' = <<>>
                /\ outcome' = Return([errors  |-> validatedFields.fieldErrors,
                                      message |-> "Missing Fields. Failed to Update Invoice."])
                /\ UNCHANGED invoices
           ELSE LET customerId    == validatedFields.data.customerId
                    amount        == validatedFields.data.amount
                    status        == validatedFields.data.status
                    amountInCents == TimesHundred[amount]
                    params        == [customerId |-> customerId, amount |-> amountInCents,
                                      status |-> status, id |-> id]
                IN  IF sqlOk
                    THEN /\ invoices' = SqlUpdate(invoices, id, customerId, amountInCents, status)
                         /\ effects' = <<Sql("UPDATE", params, TRUE),
                                         RevalidatePath(InvoicesPath), Redirect(InvoicesPath)>>
                         /\ outcome' = Redirected(InvoicesPath)
                    ELSE /\ UNCHANGED invoices
                         /\ effects' = <<Sql("UPDATE", params, FALSE)>>
                         /\ outcome' = Return([message |-> "Database Error: Failed to Update Invoice."])

\* the function throws on its first line; the DELETE below it never runs
deleteInvoice(id) ==
    /\ pc = "idle"
    /\ pc' = "done"
    /\ call' = [fn |-> "deleteInvoice", id |-> id]
    /\ effects' = <<>>
    /\ outcome' = Throw([class |-> "Error", message |-> "Failed to Delete Invoice"])
    /\ UNCHANGED invoices

(***************************************************************************)
(* authenticate                                                            *)
(***************************************************************************)

\* classes for which `error instanceof AuthError` holds
AuthErrorClasses == {"AuthError", "CredentialsSignin", "CallbackRouteError"}

\* what signIn('credentials', formData) may do: resolve, or throw
SignInResults ==
    {[t |-> "ok"],
     [t |-> "throw", error |-> [class |-> "CredentialsSignin", type |-> "CredentialsSignin"]],
     [t |-> "throw", error |-> [class |-> "CallbackRouteError", type |-> "CallbackRouteError"]],
     [t |-> "throw", error |-> [class |-> "AuthError", type |-> "AuthError"]],
     [t |-> "throw", error |-> [class |-> "Error", message |-> "connect ECONNREFUSED"]],
     [t |-> "throw", error |-> [class |-> "Error", message |-> "NEXT_REDIRECT"]]}

CredentialInputs ==
    {[email |-> "user@nextmail.com", password |-> "123456"],
     [email |-> "user@nextmail.com", password |-> "wrong"]}

\* authenticate without the final `throw error`
authenticate_swallow(formData, signInResult) ==
    /\ pc = "idle"
    /\ pc' = "done"
    /\ call' = [fn |-> "authenticate", formData |-> formData, signIn |-> signInResult]
    /\ effects' = <<[op |-> "signIn", provider |-> "credentials", formData |-> formData]>>
    /\ outcome' =
          IF signInResult.t = "ok"
          THEN Return(Undefined)
          ELSE IF signInResult.error.class \in AuthErrorClasses
                  /\ signInResult.error.type = "CredentialsSignin"
               THEN Return(Str("Invalid credentials."))
               ELSE Return(Undefined)
    /\ UNCHANGED invoices

authenticate(formData, signInResult) ==
    /\ pc = "idle"
    /\ pc' = "done"
    /\ call' = [fn |-> "authenticate", formData |-> formData, signIn |-> signInResult]
    /\ effects' = <<[op |-> "signIn", provider |-> "credentials", formData |-> formData]>>
    /\ outcome' =
          IF signInResult.t = "ok"
          THEN Return(Undefined)
          ELSE LET error == signInResult.error
               IN  IF error.class \in AuthErrorClasses
                   THEN IF error.type = "CredentialsSignin"
                        THEN Return(Str("Invalid credentials."))
                        ELSE Return(Str("Something went wrong."))
                   ELSE Throw(error)
    /\ UNCHANGED invoices

(***************************************************************************)
(* authConfig.callbacks.authorized                                         *)
(***************************************************************************)

StartsWith(s, prefix) ==
    Len(s) >= Len(prefix) /\ SubSeq(s, 1, Len(prefix)) = prefix

DashboardPath == <<"/", "d", "a", "s", "h", "b", "o", "a", "r", "d">>

\* the session: none, one without a user, one with a user
AuthInputs == {Null, [t |-> "session", user |-> Undefined],
               [t |-> "session", user |-> [name |-> "User"]]}

PathInputs ==
    {<<"/">>,
     <<"/", "l", "o", "g", "i", "n">>,
     <<"/", "d", "a", "s", "h">>,
     DashboardPath,
     DashboardPath \o <<"s">>,
     DashboardPath \o <<"/", "i", "n", "v", "o", "i", "c", "e", "s">>,
     <<"/", "a", "p", "p">> \o DashboardPath,
     <<"/", "D", "a", "s", "h", "b", "o", "a", "r", "d">>}

\* authorized comparing the path with '/dashboard' instead of its prefix
authorized_exactMatch(auth, pathname) ==
    LET user        == IF auth.t = "null" THEN Undefined ELSE auth.user
        isLoggedIn  == user # Undefined
        isOnDashboard == pathname = DashboardPath
    IN  /\ pc = "idle"
        /\ pc' = "done"
        /\ call' = [fn |-> "authorized", auth |-> auth, pathname |-> pathname]
        /\ effects' = <<>>
        /\ outcome' =
              IF isOnDashboard
              THEN IF isLoggedIn THEN Return(TRUE) ELSE Return(FALSE)
              ELSE IF isLoggedIn
                   THEN Return([t |-> "Response.redirect", pathname |-> DashboardPath])
                   ELSE Return(TRUE)
        /\ UNCHANGED invoices

authorized(auth, pathname) ==
    LET user        == IF auth.t = "null" THEN Undefined ELSE auth.user
        isLoggedIn  == user # Undefined
        isOnDashboard == StartsWith(pathname, DashboardPath)
    IN  /\ pc = "idle"
        /\ pc' = "done"
        /\ call' = [fn |-> "authorized", auth |-> auth, pathname |-> pathname]
        /\ effects' = <<>>
        /\ outcome' =
              IF isOnDashboard
              THEN IF isLoggedIn THEN Return(TRUE) ELSE Return(FALSE)
              ELSE IF isLoggedIn
                   THEN Return([t |-> "Response.redirect", pathname |-> DashboardPath])
                   ELSE Return(TRUE)
        /\ UNCHANGED invoices

(***************************************************************************)
(* The framework delivers the result of the call; the request is over.     *)
(***************************************************************************)

Respond ==
    /\ pc = "done"
    /\ pc' = "idle"
    /\ call' = NoCall
    /\ effects' = <<>>
    /\ outcome' = NoOutcome
    /\ UNCHANGED invoices

\* a call starts only while no other is in progress, whatever its arguments
Next ==
    \/ pc = "idle" /\ \E formData \in FormInputs, today \in Dates, sqlOk \in BOOLEAN :
                         createInvoice(formData, today, sqlOk)
    \/ pc = "idle" /\ \E id \in DOMAIN invoices \cup {NewId(invoices)},
                         formData \in FormInputs, sqlOk \in BOOLEAN :
                         updateInvoice(id, formData, sqlOk)
    \/ pc = "idle" /\ \E id \in DOMAIN invoices \cup {NewId(invoices)} : deleteInvoice(id)
    \/ pc = "idle" /\ \E formData \in CredentialInputs, signInResult \in SignInResults :
                         authenticate(formData, signInResult)
    \/ pc = "idle" /\ \E auth \in AuthInputs, pathname \in PathInputs :
                         authorized(auth, pathname)
    \/ Respond

Spec == Init /\ [][Next]_vars

(***************************************************************************)
(* Vocabulary of the properties                                            *)
(***************************************************************************)

InvoiceFields == {"customerId", "amount", "status"}

InvoiceCallDone == pc = "done" /\ call.fn \in {"createInvoice", "updateInvoice"}

FieldResult(f, formData) ==
    CASE f = "customerId" -> FormSchema_customerId(formData.customerId)
      [] f = "amount"     -> FormSchema_amount(formData.amount)
      [] f = "status"     -> FormSchema_status(formData.status)

FieldIssues(f, formData) ==
    IF FieldResult(f, formData).ok THEN <<>> ELSE FieldResult(f, formData).issues

FailingFields(formData) == {f \in InvoiceFields : FieldIssues(f, formData) # <<>>}

MissingFieldsMessage(fn) ==
    IF fn = "createInvoice" THEN "Missing Fields. Failed to Create Invoice."
    ELSE "Missing Fields. Failed to Update Invoice."

DatabaseErrorMessage(fn) ==
    IF fn = "createInvoice" THEN "Database Error: Failed to Create Invoice."
    ELSE "Database Error: Failed to Update Invoice."

EffectsOf(op) == {i \in 1..Len(effects) : effects[i].op = op}

\* the call returned the validation-error object
ReturnedFieldErrors ==
    /\ outcome.kind = "return"
    /\ DOMAIN outcome.value = {"errors", "message"}

\* the amount field as a decimal: the literal it spells, if any
AmountLiteral(raw) == DecimalLiteral(TrimString(raw.v))

AmountIsEmpty(raw) == raw.t = "null" \/ TrimString(raw.v) = <<>>

AmountIsNumeric(raw) == ~AmountIsEmpty(raw) /\ AmountLiteral(raw).ok

\* the exact decimal value of a numeric amount is greater than 0
AmountIsPositive(raw) ==
    /\ AmountIsNumeric(raw)
    /\ ~AmountLiteral(raw).neg
    /\ DecimalValue(AmountLiteral(raw).int \o AmountLiteral(raw).frac) > 0

\* round(amount * 100) of a numeric amount with at most 2 decimal digits
ExactCents(raw) ==
    LET d == AmountLiteral(raw)
    IN  (IF d.neg THEN -1 ELSE 1)
          * ((DecimalValue(d.int \o d.frac) * 100) \div (10^Len(d.frac)))

GreaterThanZeroMessage == "Please enter an amount greater than $0."

(***************************************************************************)
(* C1: in createInvoice and updateInvoice, whenever customerId, amount or  *)
(* status fails validation, the call returns the field-error map with the  *)
(* message 'Missing Fields. Failed to Create|Update Invoice.', performs no *)
(* storage statement, no cache invalidation and no redirect, and the       *)
(* stored invoices are the same after the call as before it.               *)
(***************************************************************************)
C1_InvalidFormReturnsErrors ==
    /\ [](InvoiceCallDone /\ FailingFields(call.formData) # {} =>
            /\ ReturnedFieldErrors
            /\ DOMAIN outcome.value.errors = FailingFields(call.formData)
            /\ \A f \in FailingFields(call.formData) :
                  outcome.value.errors[f] = FieldIssues(f, call.formData)
            /\ outcome.value.message = MissingFieldsMessage(call.fn)
            /\ effects = <<>>)
    /\ [][pc = "idle" /\ pc' = "done"
            /\ call'.fn \in {"createInvoice", "updateInvoice"}
            /\ FailingFields(call'.formData) # {}
          => invoices' = invoices]_vars

C1_Witness ==
    /\ pc = "done"
    /\ call.fn = "updateInvoice"
    /\ call.id \in DOMAIN invoices
    /\ FailingFields(call.formData) = {"amount"}
    /\ ReturnedFieldErrors
    /\ Cardinality(DOMAIN invoices) = MaxInvoices

(***************************************************************************)
(* C2: authorized allows a path under '/dashboard' when authenticated and  *)
(* denies it when not; on any other path it redirects an authenticated     *)
(* request to '/dashboard' and allows an unauthenticated one.              *)
(***************************************************************************)
IsAuthenticated(auth) == auth.t = "session" /\ auth.user # Undefined

C2_AuthorizerDecision ==
    pc = "done" /\ call.fn = "authorized" =>
        outcome =
            IF StartsWith(call.pathname, DashboardPath)
            THEN IF IsAuthenticated(call.auth) THEN Return(TRUE) ELSE Return(FALSE)
            ELSE IF IsAuthenticated(call.auth)
                 THEN Return([t |-> "Response.redirect", pathname |-> DashboardPath])
                 ELSE Return(TRUE)

C2_Witness ==
    /\ pc = "done"
    /\ call.fn = "authorized"
    /\ ~IsAuthenticated(call.auth)
    /\ StartsWith(call.pathname, DashboardPath)
    /\ call.pathname # DashboardPath
    /\ outcome = Return(FALSE)

(***************************************************************************)
(* C3: deleteInvoice(id) returns {message: 'Deleted Invoice.'} after       *)
(* removing the invoice, or {message: 'Database Error: Failed to Delete    *)
(* Invoice.'} when storage fails; it never redirects and never raises.     *)
(***************************************************************************)
C3_DeleteReturnsMessage ==
    pc = "done" /\ call.fn = "deleteInvoice" =>
        /\ outcome.kind = "return"
        /\ outcome.value \in {[message |-> "Deleted Invoice."],
                              [message |-> "Database Error: Failed to Delete Invoice."]}
        /\ outcome.value.message = "Deleted Invoice." => call.id \notin DOMAIN invoices
        /\ EffectsOf("redirect") = {}

(***************************************************************************)
(* C4: when the storage statement of createInvoice or updateInvoice fails, *)
(* the call returns exactly {message: 'Database Error: Failed to           *)
(* Create|Update Invoice.'}, with one storage attempt, no cache            *)
(* invalidation and no redirect, and nothing is raised.                    *)
(***************************************************************************)
C4_StorageFailureReturnsMessage ==
    InvoiceCallDone /\ (\E i \in EffectsOf("sql") : ~effects[i].ok) =>
        /\ outcome = Return([message |-> DatabaseErrorMessage(call.fn)])
        /\ Cardinality(EffectsOf("sql")) = 1
        /\ EffectsOf("revalidatePath") = {}
        /\ EffectsOf("redirect") = {}

C4_Witness ==
    /\ pc = "done"
    /\ call.fn = "createInvoice"
    /\ effects # <<>>
    /\ effects[1].op = "sql"
    /\ ~effects[1].ok
    /\ outcome = Return([message |-> "Database Error: Failed to Create Invoice."])

(***************************************************************************)
(* C5: a valid createInvoice or updateInvoice whose storage statement      *)
(* succeeds performs exactly one storage write, then invalidates           *)
(* '/dashboard/invoices', then redirects there and ends without a return   *)
(* value; no call invalidates the cache before or without a successful     *)
(* storage write.                                                          *)
(***************************************************************************)
C5_WriteThenRevalidateThenRedirect ==
    /\ InvoiceCallDone /\ (\E i \in EffectsOf("sql") : effects[i].ok) =>
          /\ Len(effects) = 3
          /\ effects[1].op = "sql" /\ effects[1].ok
          /\ effects[2] = RevalidatePath(InvoicesPath)
          /\ effects[3] = Redirect(InvoicesPath)
          /\ outcome = Redirected(InvoicesPath)
    /\ \A i \in EffectsOf("revalidatePath") :
          \E j \in EffectsOf("sql") : j < i /\ effects[j].ok
    /\ InvoiceCallDone /\ FailingFields(call.formData) = {} =>
          Cardinality(EffectsOf("sql")) = 1

C5_Witness ==
    /\ pc = "done"
    /\ call.fn = "updateInvoice"
    /\ call.id \in DOMAIN invoices
    /\ FailingFields(call.formData) = {}
    /\ Len(effects) = 3
    /\ effects[1].ok
    /\ outcome.kind = "redirect"

(***************************************************************************)
(* C6 (as stated): for every input to createInvoice or updateInvoice whose *)
(* amount is less than or equal to 0, empty or not numeric, the field      *)
(* errors hold for amount the message 'Please enter an amount greater than *)
(* $0.', and storage is not invoked.                                       *)
(***************************************************************************)
C6_Original ==
    InvoiceCallDone /\ ~AmountIsPositive(call.formData.amount) =>
        /\ ReturnedFieldErrors
        /\ "amount" \in DOMAIN outcome.value.errors
        /\ outcome.value.errors.amount = <<GreaterThanZeroMessage>>
        /\ EffectsOf("sql") = {}

(***************************************************************************)
(* C6 (amended): an amount that is empty, or numeric and at most 0, gets   *)
(* the message 'Please enter an amount greater than $0.'; an amount that   *)
(* is not numeric gets the type error 'Expected number, received nan'      *)
(* instead; in all these cases storage is not invoked.                     *)
(***************************************************************************)
C6_AmountErrorByKind ==
    InvoiceCallDone /\ ~AmountIsPositive(call.formData.amount) =>
        /\ ReturnedFieldErrors
        /\ "amount" \in DOMAIN outcome.value.errors
        /\ outcome.value.errors.amount =
              IF AmountIsEmpty(call.formData.amount) \/ AmountIsNumeric(call.formData.amount)
              THEN <<GreaterThanZeroMessage>>
              ELSE <<"Expected number, received nan">>
        /\ EffectsOf("sql") = {}

C6_Witness ==
    /\ pc = "done"
    /\ call.fn = "createInvoice"
    /\ call.formData.amount = Str(<<"a", "b", "c">>)
    /\ FailingFields(call.formData) = {"amount"}
    /\ ReturnedFieldErrors
    /\ outcome.value.errors.amount = <<"Expected number, received nan">>

(***************************************************************************)
(* C7: validation accepts a form exactly when customerId is a non-empty    *)
(* string, amount is a number greater than 0 and status is 'pending' or    *)
(* 'paid'; an empty or missing customerId is rejected with a customerId    *)
(* error and a status outside {pending, paid} with a status error.         *)
(***************************************************************************)
C7_AcceptsExactlyWellFormed ==
    InvoiceCallDone =>
        /\ ~ReturnedFieldErrors <=>
              /\ call.formData.customerId.t = "string"
              /\ call.formData.customerId.v # ""
              /\ AmountIsPositive(call.formData.amount)
              /\ call.formData.status \in {Str("pending"), Str("paid")}
        /\ call.formData.customerId \in {Null, Str("")} =>
              ReturnedFieldErrors /\ "customerId" \in DOMAIN outcome.value.errors
        /\ call.formData.status \notin {Str("pending"), Str("paid")} =>
              ReturnedFieldErrors /\ "status" \in DOMAIN outcome.value.errors

(***************************************************************************)
(* C8: authenticate returns 'Invalid credentials.' when signIn throws an   *)
(* AuthError of type CredentialsSignin, 'Something went wrong.' for any    *)
(* other AuthError, re-raises unchanged an error that is not an AuthError, *)
(* and returns no message when signIn succeeds.                            *)
(***************************************************************************)
C8_AuthenticateMapping ==
    pc = "done" /\ call.fn = "authenticate" =>
        outcome =
            IF call.signIn.t = "ok" THEN Return(Undefined)
            ELSE IF call.signIn.error.class \notin AuthErrorClasses
                 THEN Throw(call.signIn.error)
            ELSE IF call.signIn.error.type = "CredentialsSignin"
                 THEN Return(Str("Invalid credentials."))
            ELSE Return(Str("Something went wrong."))

C8_Witness ==
    /\ pc = "done"
    /\ call.fn = "authenticate"
    /\ call.signIn.t = "throw"
    /\ call.signIn.error.class = "Error"
    /\ outcome = Throw(call.signIn.error)

(***************************************************************************)
(* C9: the amount createInvoice and updateInvoice pass to storage is the   *)
(* integer round(amount * 100), exactly ('19.99' is stored as 1999).       *)
(***************************************************************************)
C9_StoresExactCents ==
    InvoiceCallDone =>
        \A i \in EffectsOf("sql") :
            /\ NumIsInteger(effects[i].params.amount)
            /\ NumIntValue(effects[i].params.amount) = ExactCents(call.formData.amount)

(***************************************************************************)
(* C10: a successful updateInvoice(id, input) leaves the number of stored  *)
(* invoices, every invoice with another id, and the id and date of the     *)
(* invoice with that id unchanged; when no invoice has that id, storage is *)
(* unchanged and the call still invalidates the cache and redirects.       *)
(***************************************************************************)
C10_UpdateFrame ==
    [][pc = "idle" /\ pc' = "done" /\ call'.fn = "updateInvoice"
         /\ effects' # <<>> /\ effects'[1].op = "sql" /\ effects'[1].ok
       => /\ DOMAIN invoices' = DOMAIN invoices
          /\ \A i \in DOMAIN invoices :
                /\ i # call'.id => invoices'[i] = invoices[i]
                /\ i = call'.id => invoices'[i].date = invoices[i].date
          /\ call'.id \notin DOMAIN invoices =>
                /\ invoices' = invoices
                /\ effects'[2] = RevalidatePath(InvoicesPath)
                /\ outcome' = Redirected(InvoicesPath)]_vars

C10_Witness ==
    /\ pc = "done"
    /\ call.fn = "updateInvoice"
    /\ outcome.kind = "redirect"
    /\ Cardinality(DOMAIN invoices) >= 2
    /\ call.id \in DOMAIN invoices
    /\ invoices[call.id].customer_id = call.formData.customerId.v
    /\ \E i \in DOMAIN invoices : invoices[i].customer_id # call.formData.customerId.v

====
